---- MODULE Spec2Model ----
(***************************************************************************)
(* Boundary crossing engine of src/geofencing.py: BoundaryCrossingEngine   *)
(* (process_gps and its helpers), the /gps request handler and the         *)
(* synthetic feed thread of BoundaryTestingSystem, all sharing one engine  *)
(* object without any lock (Flask runs with threaded=True).                *)
(*                                                                         *)
(* Coordinates are in units of 1/10000 degree, times in seconds.           *)
(* Every access to a shared attribute of the engine is one step, so the    *)
(* interleavings of the threads are the ones the interpreter can produce.  *)
(*                                                                         *)
(* Spec, SpecBurst, SpecExample and SpecThrottle follow an engine on which *)
(* the initializer _init_ has been run. SpecMain follows main() itself,    *)
(* where the engine is built by calling the class, and SpecDistance the    *)
(* loop of _calculate_boundary_distance.                                   *)
(*                                                                         *)
(* On the same initialized objects, SpecBurstCommit is the burst with its  *)
(* commits taken in turn, SpecNominal the feed without GPS noise,          *)
(* SpecAccuracy and SpecOutage one request thread with the accuracy        *)
(* parameter and with a failing log database, and SpecControl the calls of *)
(* start_testing and stop_testing beside the feed threads they control.    *)
(***************************************************************************)
EXTENDS Integers, Sequences, FiniteSets

\* ------------------------------------------------------------ configuration

CALL_COOLDOWN_SECONDS == 30
MAX_EMERGENCY_CALLS == 3
GPS_ACCURACY_MAX == 100
TEST_INTERVAL == 2

\* Config.TEST_SCENARIOS (name, lat, lon, inside_boundary, duration)
TEST_SCENARIOS ==
  << [name |-> "inside_indian_waters",    lat |-> 225000, lon |-> 690000, inside_boundary |-> TRUE,  duration |-> 8],
     [name |-> "approaching_boundary",    lat |-> 239500, lon |-> 680500, inside_boundary |-> TRUE,  duration |-> 6],
     [name |-> "at_boundary_line",        lat |-> 240000, lon |-> 680000, inside_boundary |-> TRUE,  duration |-> 4],
     [name |-> "CROSSED_BOUNDARY",        lat |-> 240500, lon |-> 679500, inside_boundary |-> FALSE, duration |-> 8],
     [name |-> "deep_in_pakistan_waters", lat |-> 242000, lon |-> 678000, inside_boundary |-> FALSE, duration |-> 6],
     [name |-> "returning_to_boundary",   lat |-> 240000, lon |-> 680000, inside_boundary |-> TRUE,  duration |-> 4],
     [name |-> "back_in_indian_waters",   lat |-> 238000, lon |-> 682000, inside_boundary |-> TRUE,  duration |-> 10] >>

\* the demo zone of create_demo_boundaries: rectangle [68E,20N]-[75E,26N]
ZoneWest  == 680000
ZoneEast  == 750000
ZoneSouth == 200000
ZoneNorth == 260000
\* its ring of (lon, lat) vertices as written to the GeoJSON file
ZoneRing ==
  << [lon |-> 680000, lat |-> 200000], [lon |-> 750000, lat |-> 200000],
     [lon |-> 750000, lat |-> 260000], [lon |-> 680000, lat |-> 260000],
     [lon |-> 680000, lat |-> 200000] >>

\* ------------------------------------------------------------------ bounds

\* observations started in one behaviour (caps boundary_crossings and the log)
MaxObs == 4
\* observations started in one burst
BurstObs == 4
\* the clock starts at StartTime and is advanced up to StartTime + ClockSpan
StartTime == 1000
ClockSpan == 30
\* requests of the example run, and the step of its clock
ExampleObs == 3
\* observations of the feed without noise: one pass over TEST_SCENARIOS
\* (durations 8, 6, 4, 8, 6, 4, 10 at one observation per TEST_INTERVAL)
NominalObs == 23
\* /gps requests that carry an accuracy, served one at a time
AccuracyObs == 3
\* /gps requests served one at a time while the log database comes and goes
OutageObs == 3
\* observations of the feed threads while start_testing and stop_testing
\* are being called
ControlObs == 2
FineStep == 10

TimeStep == CALL_COOLDOWN_SECONDS

\* the request threads of the threaded server (app.run(threaded=True) starts
\* one per request), and the feed thread
Handlers == {"h1", "h2", "h3", "h4"}
FeedThread == "feed"
\* the Thread objects start_testing may create: the one of main() and a
\* later one
FeedThreads == {FeedThread, "feed2"}
\* self.thread before any Thread was assigned
NoThread == "None"
\* one request in flight beside the feed
Threads == {"h1", FeedThread}
\* the scenario the feed is at when the model starts to follow it: the first
\* one, or CROSSED_BOUNDARY, which the feed reaches with the engine still as
\* constructed when every earlier observation was inside the zone
FeedStarts == {1, 4}
\* a burst of requests, each served by its own thread, within one sleep of
\* the feed
BurstThreads == Handlers
HandlerOrder == << "h1", "h2", "h3", "h4" >>
Earlier(t) == { HandlerOrder[i] : i \in { j \in 1..Len(HandlerOrder) :
                   \E k \in (j+1)..Len(HandlerOrder) : HandlerOrder[k] = t } }
\* the positions of a thread in the code, in program order
PcOrder == << "idle", "compare", "count_read", "count_write", "reset", "log",
              "update", "build", "decide", "dispatch", "commit_time",
              "commit_read", "commit_write", "respond" >>
Rank(label) == CHOOSE i \in 1..Len(PcOrder) : PcOrder[i] = label

\* positions a /gps request may carry: inside the zone (well inside, next to
\* its western edge, next to its north-eastern corner), outside it (well
\* outside, on the western edge), and latitude / longitude out of range on
\* either side
RequestPositions ==
  { [lat |-> 225000,  lon |-> 690000],
    [lat |-> 240000,  lon |-> 680001],
    [lat |-> 259999,  lon |-> 749999],
    [lat |-> 240500,  lon |-> 679500],
    [lat |-> 240000,  lon |-> 680000],
    [lat |-> 910000,  lon |-> 690000],
    [lat |-> -910000, lon |-> 690000],
    [lat |-> 225000,  lon |-> 1810000],
    [lat |-> 225000,  lon |-> -1810000] }

\* random.uniform(-0.0005, 0.0005): the two extremes of the GPS noise
NoiseSet == {-5, 5}

\* the boundary line create_demo_boundaries writes: (lon, lat) vertices
DemoBoundaryLines ==
  << << [lon |-> 680000, lat |-> 230000], [lon |-> 680000, lat |-> 240000],
        [lon |-> 680000, lat |-> 250000], [lon |-> 680000, lat |-> 260000] >> >>

VARIABLES
  \* BoundaryCrossingEngine attributes
  last_inside_boundary, current_inside_boundary, boundary_crossings,
  last_call_time, calls_for_current_crossing,
  \* BoundaryTestingSystem attributes
  scenario_index, scenario_timer, running, thread,
  \* time.time(), and whether sqlite3 can write the log database
  now, db_available,
  \* the global ENGINE, the position of main() and what main() is started
  \* with (command line, the GeoJSON files in the working directory)
  ENGINE, main_pc, main_input,
  \* the engine's boundary_lines, and the locals of a running
  \* _calculate_boundary_distance
  boundary_lines, distance_call,
  \* per thread: position in the code and local variables
  pc, frame,
  \* history: observations started, containment of the latest observation
  \* that reached the comparison of line 147, number of alternations in the
  \* sequence of those containments, and the authorizations in the order
  \* they were decided
  obsCount, seenInside, alternations, auths

engine == << last_inside_boundary, current_inside_boundary, boundary_crossings,
             last_call_time, calls_for_current_crossing >>
session == << last_inside_boundary, boundary_crossings,
              calls_for_current_crossing, last_call_time >>
control == << running, thread >>
feed == << scenario_index, scenario_timer, control >>
history == << obsCount, seenInside, alternations, auths >>
process == << ENGINE, main_pc, main_input >>
geometry == << boundary_lines, distance_call >>
env == << now, db_available, process, geometry >>
vars == << engine, feed, env, pc, frame, history >>

\* -------------------------------------------------------------- pure parts

\* the Position of the data model: latitude in [-90, 90], longitude in
\* [-180, 180]; kept with each observation as history
InRange(lat, lon) ==
  lat \in -900000..900000 /\ lon \in -1800000..1800000

Abs(x) == IF x < 0 THEN -x ELSE x

RECURSIVE GCD(_, _)
GCD(a, b) == IF b = 0 THEN a ELSE GCD(b, a % b)

\* a position strictly interior to the zone polygon: strictly to the left of
\* every edge of its counter-clockwise ring (the sign of the cross product
\* of the edge direction and the vector from the edge's start to the
\* position); kept with each observation as history
StrictlyInterior(lat, lon) ==
  \A k \in 1..(Len(ZoneRing) - 1) :
    LET a == ZoneRing[k]
        b == ZoneRing[k + 1]
        g == GCD(Abs(b.lon - a.lon), Abs(b.lat - a.lat))
        dlon == (b.lon - a.lon) \div g
        dlat == (b.lat - a.lat) \div g
    IN dlon * (lat - a.lat) - dlat * (lon - a.lon) > 0

\* mutant of Contains: the point is built as Point(lat, lon)
ContainsSwapped(lat, lon) ==
  ZoneWest < lat /\ lat < ZoneEast /\ ZoneSouth < lon /\ lon < ZoneNorth

\* mutant of ValidCoordinates: the longitude test is forgotten
ValidCoordinatesLatitudeOnly(lat, lon) ==
  -900000 <= lat /\ lat <= 900000

\* gps_endpoint line 651
ValidCoordinates(lat, lon) ==
  (-900000 <= lat /\ lat <= 900000) /\ (-1800000 <= lon /\ lon <= 1800000)

\* india_polygon.contains(Point(lon, lat)): interior only, the border excluded
Contains(lat, lon) ==
  ZoneWest < lon /\ lon < ZoneEast /\ ZoneSouth < lat /\ lat < ZoneNorth

\* last_call_time is <<>> for None and <<t>> for the float t
NoCall == <<>>
Truthy(t) == t /= <<>> /\ t[1] /= 0

ShouldMakeEmergencyCall(calls, last, current_time) ==
  IF calls >= MAX_EMERGENCY_CALLS THEN FALSE
  ELSE IF Truthy(last) /\ (current_time - last[1]) < CALL_COOLDOWN_SECONDS THEN FALSE
  ELSE TRUE

NoFrame ==
  [ in_range |-> FALSE, interior |-> FALSE, current_time |-> 0, inside_boundary |-> FALSE,
    boundary_crossed |-> FALSE, crossing_direction |-> "None", tmp |-> 0,
    event_id |-> 0, total_crossings |-> 0, requires_emergency_call |-> FALSE,
    call_success |-> FALSE, emergency_call_made |-> FALSE, status |-> 0,
    episode |-> 0, authNo |-> 0,
    lat |-> 0, lon |-> 0, accuracy |-> 0, before |-> <<>>, count_before |-> 0,
    target |-> NoThread, answer |-> "None" ]

\* float("inf") is <<>> and the float d is <<d>> in min_distance
NoDistanceCall ==
  [ pc |-> "idle", lat |-> 0, lon |-> 0, line |-> 0, i |-> 0,
    min_distance |-> <<>>, result |-> 0 ]

\* ------------------------------------------------------------------- Init

InitEngine ==
  /\ last_inside_boundary = TRUE
  /\ current_inside_boundary = TRUE
  /\ boundary_crossings = 0
  /\ last_call_time = NoCall
  /\ calls_for_current_crossing = 0
  /\ scenario_index \in FeedStarts
  /\ scenario_timer = 0
  /\ now = StartTime
  /\ db_available = TRUE
  /\ obsCount = 0
  /\ seenInside = TRUE
  /\ alternations = 0
  /\ auths = <<>>

\* the global ENGINE: None (line 476), or an instance of
\* BoundaryCrossingEngine, which has the attributes of _init_ (has_state)
\* only when _init_ was run on it
NoEngine == [ class |-> "NoneType", has_state |-> FALSE ]
EngineObject(has_state) == [ class |-> "BoundaryCrossingEngine", has_state |-> has_state ]

\* the methods the class statement of BoundaryCrossingEngine defines
EngineMethods ==
  { "_init_", "process_gps", "_calculate_boundary_distance",
    "_should_make_emergency_call", "_log_boundary_event" }

\* calling a class with nargs arguments: the interpreter runs the method
\* named __init__ when the class defines one; a class that defines none
\* takes no arguments and yields an object without attributes
CallClass(methods, nargs) ==
  IF "__init__" \in methods THEN "initialized"
  ELSE IF nargs = 0 THEN "bare"
  ELSE "TypeError"

\* the server of main() at app.run, over the files of create_demo_boundaries,
\* with _init_ run on the engine and on the testing system, and the feed
\* started by main() (lines 893-895)
InitServing ==
  /\ ENGINE = EngineObject(TRUE)
  /\ main_pc = "app_run"
  /\ main_input = [ test_mode |-> TRUE, port |-> 5000,
                    zone_file |-> "valid", boundary_file |-> "valid" ]
  /\ running = TRUE
  /\ thread = FeedThread
  /\ boundary_lines = DemoBoundaryLines
  /\ distance_call = NoDistanceCall

Init ==
  /\ InitEngine
  /\ InitServing
  /\ pc = [t \in Threads |-> "idle"]
  /\ frame = [t \in Threads |-> NoFrame]

InitBurst ==
  /\ InitEngine
  /\ InitServing
  /\ pc = [t \in BurstThreads |-> "idle"]
  /\ frame = [t \in BurstThreads |-> NoFrame]

\* the entry of process_gps (lines 134-145): the clock is read and the
\* position classified; nothing of the engine is touched yet
EnterProcessGps(t, lat, lon) ==
  /\ pc' = [pc EXCEPT ![t] = "compare"]
  /\ frame' = [frame EXCEPT ![t] =
        [NoFrame EXCEPT !.in_range = InRange(lat, lon),
                        !.interior = StrictlyInterior(lat, lon), !.current_time = now,
                        !.inside_boundary = Contains(lat, lon)]]
  /\ obsCount' = obsCount + 1

\* mutant of ProcessGpsWithAccuracy: a fix less accurate than
\* GPS_ACCURACY_MAX is classified as outside
ProcessGpsAccuracyGated(t, lat, lon, accuracy) ==
  /\ pc' = [pc EXCEPT ![t] = "compare"]
  /\ frame' = [frame EXCEPT ![t] =
        [NoFrame EXCEPT !.in_range = InRange(lat, lon),
                        !.interior = StrictlyInterior(lat, lon), !.current_time = now,
                        !.inside_boundary = Contains(lat, lon) /\ accuracy <= GPS_ACCURACY_MAX,
                        !.lat = lat, !.lon = lon, !.accuracy = accuracy,
                        !.before = session]]
  /\ obsCount' = obsCount + 1

\* the entry of process_gps (lines 132-145) with all its parameters: the
\* body never reads `accuracy`. The call keeps what it was given (lat, lon,
\* accuracy) and the session state it started from (before)
ProcessGpsWithAccuracy(t, lat, lon, accuracy) ==
  /\ pc' = [pc EXCEPT ![t] = "compare"]
  /\ frame' = [frame EXCEPT ![t] =
        [NoFrame EXCEPT !.in_range = InRange(lat, lon),
                        !.interior = StrictlyInterior(lat, lon), !.current_time = now,
                        !.inside_boundary = Contains(lat, lon),
                        !.lat = lat, !.lon = lon, !.accuracy = accuracy,
                        !.before = session]]
  /\ obsCount' = obsCount + 1

\* gps_endpoint lines 646-655, for a request that carries position p
GpsRequestAt(t, p) ==
  /\ t \in Handlers
  /\ pc[t] = "idle"
  /\ IF ValidCoordinates(p.lat, p.lon)
     THEN EnterProcessGps(t, p.lat, p.lon)
     ELSE /\ pc' = [pc EXCEPT ![t] = "respond"]
          /\ frame' = [frame EXCEPT ![t] = [NoFrame EXCEPT !.status = 400]]
          /\ obsCount' = obsCount
  /\ UNCHANGED << engine, feed, env, seenInside, alternations, auths >>

GpsRequest(t) == \E p \in RequestPositions : GpsRequestAt(t, p)

\* _run_test_scenarios lines 410-427: the position of the current scenario
\* plus noise; the feed does not validate, it calls process_gps directly
FeedObserveWith(t, noise) ==
  /\ t \in FeedThreads
  /\ pc[t] = "idle"
  /\ \E lat_noise \in noise, lon_noise \in noise :
       EnterProcessGps(t, TEST_SCENARIOS[scenario_index].lat + lat_noise,
                          TEST_SCENARIOS[scenario_index].lon + lon_noise)
  /\ UNCHANGED << engine, feed, env, seenInside, alternations, auths >>

FeedObserve(t) == FeedObserveWith(t, NoiseSet)

\* process_gps line 147: inside_boundary != self.last_inside_boundary.
\* count_before keeps, until the result is built, the crossing count this
\* observation found
DetectCrossing(t) ==
  /\ pc[t] = "compare"
  /\ LET f == frame[t]
         crossed == f.inside_boundary /= last_inside_boundary
         alt == IF f.inside_boundary /= seenInside THEN alternations + 1 ELSE alternations
     IN /\ frame' = [frame EXCEPT ![t].boundary_crossed = crossed, ![t].episode = alt,
                                  ![t].count_before = boundary_crossings]
        /\ pc' = [pc EXCEPT ![t] = IF crossed THEN "count_read" ELSE "log"]
        /\ alternations' = alt
        /\ seenInside' = f.inside_boundary
  /\ UNCHANGED << engine, feed, env, obsCount, auths >>

\* process_gps line 149, self.boundary_crossings += 1: the load ...
CountRead(t) ==
  /\ pc[t] = "count_read"
  /\ frame' = [frame EXCEPT ![t].tmp = boundary_crossings]
  /\ pc' = [pc EXCEPT ![t] = "count_write"]
  /\ UNCHANGED << engine, feed, env, history >>

\* ... and the store
CountWrite(t) ==
  /\ pc[t] = "count_write"
  /\ boundary_crossings' = frame[t].tmp + 1
  /\ pc' = [pc EXCEPT ![t] = "reset"]
  /\ UNCHANGED << last_inside_boundary, current_inside_boundary, last_call_time,
                  calls_for_current_crossing, feed, env, frame, history >>

\* mutant of ResetCalls: the call count is reset on entering only
ResetCallsOnEntryOnly(t) ==
  /\ pc[t] = "reset"
  /\ frame' = [frame EXCEPT ![t].crossing_direction =
        IF frame[t].inside_boundary THEN "ENTERED_INDIAN_WATERS" ELSE "EXITED_INDIAN_WATERS"]
  /\ calls_for_current_crossing' =
        IF frame[t].inside_boundary THEN 0 ELSE calls_for_current_crossing
  /\ pc' = [pc EXCEPT ![t] = "log"]
  /\ UNCHANGED << last_inside_boundary, current_inside_boundary, boundary_crossings,
                  last_call_time, feed, env, history >>

\* process_gps lines 151-156: the direction, and the call count reset on
\* either direction
ResetCalls(t) ==
  /\ pc[t] = "reset"
  /\ frame' = [frame EXCEPT ![t].crossing_direction =
        IF frame[t].inside_boundary THEN "ENTERED_INDIAN_WATERS" ELSE "EXITED_INDIAN_WATERS"]
  /\ calls_for_current_crossing' = 0
  /\ pc' = [pc EXCEPT ![t] = "log"]
  /\ UNCHANGED << last_inside_boundary, current_inside_boundary, boundary_crossings,
                  last_call_time, feed, env, history >>

\* mutant of LogBoundaryEvent: the failure of the insert is not caught and
\* ends the request with status 500
LogBoundaryEventRaises(t) ==
  /\ pc[t] = "log"
  /\ IF db_available
     THEN /\ frame' = [frame EXCEPT ![t].event_id = 1]
          /\ pc' = [pc EXCEPT ![t] = "update"]
     ELSE /\ frame' = [frame EXCEPT ![t].status = 500]
          /\ pc' = [pc EXCEPT ![t] = "respond"]
  /\ UNCHANGED << engine, feed, env, history >>

\* _log_boundary_event: cursor.lastrowid, a positive row id (1 stands for
\* any of them), or 0 when the insert raised
LogBoundaryEvent(t) ==
  /\ pc[t] = "log"
  /\ frame' = [frame EXCEPT ![t].event_id = IF db_available THEN 1 ELSE 0]
  /\ pc' = [pc EXCEPT ![t] = "update"]
  /\ UNCHANGED << engine, feed, env, history >>

\* process_gps lines 165-166
UpdateState(t) ==
  /\ pc[t] = "update"
  /\ last_inside_boundary' = frame[t].inside_boundary
  /\ current_inside_boundary' = frame[t].inside_boundary
  /\ pc' = [pc EXCEPT ![t] = "build"]
  /\ UNCHANGED << boundary_crossings, last_call_time, calls_for_current_crossing,
                  feed, env, frame, history >>

\* process_gps lines 168-179: the result dictionary reads boundary_crossings
BuildResult(t) ==
  /\ pc[t] = "build"
  /\ frame' = [frame EXCEPT ![t].total_crossings = boundary_crossings,
                            ![t].requires_emergency_call = FALSE,
                            ![t].count_before = 0]
  /\ pc' = [pc EXCEPT ![t] = "decide"]
  /\ UNCHANGED << engine, feed, env, history >>

\* mutant of DecideCall: a call is required on any crossing, entering included
DecideCallOnAnyCrossing(t) ==
  /\ pc[t] = "decide"
  /\ LET f == frame[t]
         req == /\ f.boundary_crossed
                /\ ShouldMakeEmergencyCall(calls_for_current_crossing,
                                           last_call_time, f.current_time)
     IN /\ frame' = [frame EXCEPT ![t].requires_emergency_call = req,
                                  ![t].status = 200,
                                  ![t].authNo = IF req THEN Len(auths) + 1 ELSE 0]
        /\ auths' = IF req
                    THEN Append(auths, [time |-> f.current_time,
                                        episode |-> f.episode,
                                        outcome |-> "pending"])
                    ELSE auths
        /\ pc' = [pc EXCEPT ![t] = IF req THEN "dispatch" ELSE "respond"]
  /\ UNCHANGED << engine, feed, env, obsCount, seenInside, alternations >>

\* mutant of DecideCall: the check records the call it allows
DecideCallAndRecord(t) ==
  /\ pc[t] = "decide"
  /\ LET f == frame[t]
         req == /\ f.boundary_crossed
                /\ ~f.inside_boundary
                /\ ShouldMakeEmergencyCall(calls_for_current_crossing,
                                           last_call_time, f.current_time)
     IN /\ frame' = [frame EXCEPT ![t].requires_emergency_call = req,
                                  ![t].status = 200,
                                  ![t].authNo = IF req THEN Len(auths) + 1 ELSE 0]
        /\ auths' = IF req
                    THEN Append(auths, [time |-> f.current_time,
                                        episode |-> f.episode,
                                        outcome |-> "pending"])
                    ELSE auths
        /\ last_call_time' = IF req THEN << f.current_time >> ELSE last_call_time
        /\ calls_for_current_crossing' =
              IF req THEN calls_for_current_crossing + 1 ELSE calls_for_current_crossing
        /\ pc' = [pc EXCEPT ![t] = IF req THEN "dispatch" ELSE "respond"]
  /\ UNCHANGED << last_inside_boundary, current_inside_boundary, boundary_crossings,
                  feed, env, obsCount, seenInside, alternations >>

\* mutant of DecideCall: the throttle is asked on every observation outside
\* the zone, not only on the one that detects the exit
DecideCallOnEveryOutside(t) ==
  /\ pc[t] = "decide"
  /\ LET f == frame[t]
         req == /\ ~f.inside_boundary
                /\ ShouldMakeEmergencyCall(calls_for_current_crossing,
                                           last_call_time, f.current_time)
     IN /\ frame' = [frame EXCEPT ![t].requires_emergency_call = req,
                                  ![t].status = 200,
                                  ![t].authNo = IF req THEN Len(auths) + 1 ELSE 0]
        /\ auths' = IF req
                    THEN Append(auths, [time |-> f.current_time,
                                        episode |-> f.episode,
                                        outcome |-> "pending"])
                    ELSE auths
        /\ pc' = [pc EXCEPT ![t] = IF req THEN "dispatch" ELSE "respond"]
  /\ UNCHANGED << engine, feed, env, obsCount, seenInside, alternations >>

\* process_gps lines 182-187, and the caller's test of the result
\* (gps_endpoint line 658, _run_test_scenarios line 430)
DecideCall(t) ==
  /\ pc[t] = "decide"
  /\ LET f == frame[t]
         req == /\ f.boundary_crossed
                /\ ~f.inside_boundary
                /\ ShouldMakeEmergencyCall(calls_for_current_crossing,
                                           last_call_time, f.current_time)
     IN /\ frame' = [frame EXCEPT ![t].requires_emergency_call = req,
                                  ![t].status = 200,
                                  ![t].authNo = IF req THEN Len(auths) + 1 ELSE 0]
        /\ auths' = IF req
                    THEN Append(auths, [time |-> f.current_time,
                                        episode |-> f.episode,
                                        outcome |-> "pending"])
                    ELSE auths
        /\ pc' = [pc EXCEPT ![t] = IF req THEN "dispatch" ELSE "respond"]
  /\ UNCHANGED << engine, feed, env, obsCount, seenInside, alternations >>

\* mutant of Dispatch: the caller commits whatever the call returned
DispatchAlwaysCommits(t) ==
  /\ pc[t] = "dispatch"
  /\ \E ok \in BOOLEAN :
       /\ frame' = [frame EXCEPT ![t].call_success = ok]
       /\ pc' = [pc EXCEPT ![t] = "commit_time"]
       /\ auths' = IF ok THEN auths
                   ELSE [auths EXCEPT ![frame[t].authNo].outcome = "failed"]
  /\ UNCHANGED << engine, feed, env, obsCount, seenInside, alternations >>

\* EmergencyCallSystem.make_boundary_violation_call: True, or False when the
\* call raised (lines 323-326); the caller commits only a successful call
\* (gps_endpoint line 665, _run_test_scenarios line 439)
Dispatch(t) ==
  /\ pc[t] = "dispatch"
  /\ \E ok \in BOOLEAN :
       /\ frame' = [frame EXCEPT ![t].call_success = ok]
       /\ pc' = [pc EXCEPT ![t] = IF ok THEN "commit_time" ELSE "respond"]
       /\ auths' = IF ok THEN auths
                   ELSE [auths EXCEPT ![frame[t].authNo].outcome = "failed"]
  /\ UNCHANGED << engine, feed, env, obsCount, seenInside, alternations >>

\* gps_endpoint line 666, _run_test_scenarios line 440
CommitTime(t) ==
  /\ pc[t] = "commit_time"
  /\ last_call_time' = << now >>
  /\ auths' = [auths EXCEPT ![frame[t].authNo].outcome = "succeeded"]
  /\ pc' = [pc EXCEPT ![t] = "commit_read"]
  /\ UNCHANGED << last_inside_boundary, current_inside_boundary, boundary_crossings,
                  calls_for_current_crossing, feed, env, frame,
                  obsCount, seenInside, alternations >>

\* gps_endpoint line 667, _run_test_scenarios line 441,
\* calls_for_current_crossing += 1: the load ...
CommitRead(t) ==
  /\ pc[t] = "commit_read"
  /\ frame' = [frame EXCEPT ![t].tmp = calls_for_current_crossing]
  /\ pc' = [pc EXCEPT ![t] = "commit_write"]
  /\ UNCHANGED << engine, feed, env, history >>

\* ... and the store
CommitWrite(t) ==
  /\ pc[t] = "commit_write"
  /\ calls_for_current_crossing' = frame[t].tmp + 1
  /\ frame' = [frame EXCEPT ![t].emergency_call_made = TRUE]
  /\ pc' = [pc EXCEPT ![t] = "respond"]
  /\ UNCHANGED << last_inside_boundary, current_inside_boundary, boundary_crossings,
                  last_call_time, feed, env, history >>

\* gps_endpoint lines 652 and 670: the response is sent
Respond(t) ==
  /\ t \in Handlers
  /\ pc[t] = "respond"
  /\ pc' = [pc EXCEPT ![t] = "idle"]
  /\ frame' = [frame EXCEPT ![t] = NoFrame]
  /\ UNCHANGED << engine, feed, env, history >>

\* _run_test_scenarios lines 443-453: the scenario timer, then the sleep
FeedFinish(t) ==
  /\ t \in FeedThreads
  /\ pc[t] = "respond"
  /\ LET timer == scenario_timer + TEST_INTERVAL
     IN IF timer >= TEST_SCENARIOS[scenario_index].duration
        THEN /\ scenario_timer' = 0
             /\ scenario_index' = (scenario_index % Len(TEST_SCENARIOS)) + 1
        ELSE /\ scenario_timer' = timer
             /\ scenario_index' = scenario_index
  /\ pc' = [pc EXCEPT ![t] = "idle"]
  /\ frame' = [frame EXCEPT ![t] = NoFrame]
  /\ UNCHANGED << engine, control, env, history >>

\* time passes
Tick ==
  /\ now + TimeStep <= StartTime + ClockSpan
  /\ now' = now + TimeStep
  /\ UNCHANGED << engine, feed, db_available, process, geometry, pc, frame, history >>

Next ==
  \/ \E t \in Threads :
        \/ obsCount < MaxObs /\ GpsRequest(t)
        \/ obsCount < MaxObs /\ FeedObserve(t)
        \/ DetectCrossing(t)
        \/ CountRead(t)
        \/ CountWrite(t)
        \/ ResetCalls(t)
        \/ LogBoundaryEvent(t)
        \/ UpdateState(t)
        \/ BuildResult(t)
        \/ DecideCall(t)
        \/ Dispatch(t)
        \/ CommitTime(t)
        \/ CommitRead(t)
        \/ CommitWrite(t)
        \/ Respond(t)
        \/ FeedFinish(t)
  \/ Tick

Spec == Init /\ [][Next]_vars

\* a scheduler that always runs the least advanced thread, the earlier
\* thread first among equally advanced ones
LeastAdvanced(t) ==
  \A u \in DOMAIN pc \ {t} :
    \/ Rank(pc[u]) > Rank(pc[t])
    \/ Rank(pc[u]) = Rank(pc[t]) /\ u \notin Earlier(t)

\* a burst of /gps requests within one clock reading, served at the same pace
NextBurst ==
  \E t \in BurstThreads :
    \/ LeastAdvanced(t) /\ obsCount < BurstObs /\ GpsRequest(t)
    \/ LeastAdvanced(t) /\ DetectCrossing(t)
    \/ LeastAdvanced(t) /\ CountRead(t)
    \/ LeastAdvanced(t) /\ CountWrite(t)
    \/ LeastAdvanced(t) /\ ResetCalls(t)
    \/ LeastAdvanced(t) /\ LogBoundaryEvent(t)
    \/ LeastAdvanced(t) /\ UpdateState(t)
    \/ LeastAdvanced(t) /\ BuildResult(t)
    \/ LeastAdvanced(t) /\ DecideCall(t)
    \/ LeastAdvanced(t) /\ Dispatch(t)
    \/ LeastAdvanced(t) /\ CommitTime(t)
    \/ LeastAdvanced(t) /\ CommitRead(t)
    \/ LeastAdvanced(t) /\ CommitWrite(t)
    \/ LeastAdvanced(t) /\ Respond(t)

SpecBurst == InitBurst /\ [][NextBurst]_vars

\* the same burst, served at the same pace up to the dispatch, with the
\* commits of lines 659-663 running one after the other
NoOtherCommitting(t) ==
  \A u \in DOMAIN pc \ {t} : pc[u] \notin {"commit_read", "commit_write"}

NextBurstCommit ==
  \E t \in BurstThreads :
    \/ LeastAdvanced(t) /\ obsCount < BurstObs /\ GpsRequest(t)
    \/ LeastAdvanced(t) /\ DetectCrossing(t)
    \/ LeastAdvanced(t) /\ CountRead(t)
    \/ LeastAdvanced(t) /\ CountWrite(t)
    \/ LeastAdvanced(t) /\ ResetCalls(t)
    \/ LeastAdvanced(t) /\ LogBoundaryEvent(t)
    \/ LeastAdvanced(t) /\ UpdateState(t)
    \/ LeastAdvanced(t) /\ BuildResult(t)
    \/ LeastAdvanced(t) /\ DecideCall(t)
    \/ LeastAdvanced(t) /\ Dispatch(t)
    \/ LeastAdvanced(t) /\ NoOtherCommitting(t) /\ CommitTime(t)
    \/ CommitRead(t)
    \/ CommitWrite(t)
    \/ LeastAdvanced(t) /\ Respond(t)

SpecBurstCommit == InitBurst /\ [][NextBurstCommit]_vars

\* ------------------------------------------------- the nominal scenarios
\* The feed alone, its GPS noise drawn as zero: every observation is at the
\* nominal position of the scenario it belongs to, and _display_test_results
\* compares its containment with the scenario's declared inside_boundary.

NominalThreads == {FeedThread}
NominalNoise == {0}

InitNominal ==
  /\ InitEngine
  /\ scenario_index = 1
  /\ InitServing
  /\ pc = [t \in NominalThreads |-> "idle"]
  /\ frame = [t \in NominalThreads |-> NoFrame]

NextNominal ==
  \/ \E t \in NominalThreads :
        \/ obsCount < NominalObs /\ FeedObserveWith(t, NominalNoise)
        \/ DetectCrossing(t)
        \/ CountRead(t)
        \/ CountWrite(t)
        \/ ResetCalls(t)
        \/ LogBoundaryEvent(t)
        \/ UpdateState(t)
        \/ BuildResult(t)
        \/ DecideCall(t)
        \/ Dispatch(t)
        \/ CommitTime(t)
        \/ CommitRead(t)
        \/ CommitWrite(t)
        \/ FeedFinish(t)
  \/ Tick

SpecNominal == InitNominal /\ [][NextNominal]_vars

\* ------------------------------------------- _should_make_emergency_call

\* the throttle is asked by a thread that has detected an exit (line 182),
\* whatever commits of other threads have made of calls_for_current_crossing
\* and last_call_time by then; the clock may stand at the epoch, where
\* time.time() is 0.0
ThrottleThreads == {"h1"}
ThrottleTimes ==
  { 0, 1, CALL_COOLDOWN_SECONDS - 1, CALL_COOLDOWN_SECONDS,
    CALL_COOLDOWN_SECONDS + 1, 2 * CALL_COOLDOWN_SECONDS }

InitThrottle ==
  /\ InitServing
  /\ last_inside_boundary = FALSE
  /\ current_inside_boundary = FALSE
  /\ boundary_crossings = 1
  /\ calls_for_current_crossing \in 0..(MAX_EMERGENCY_CALLS + 1)
  /\ now \in ThrottleTimes
  /\ last_call_time \in {NoCall} \cup { << t >> : t \in { u \in ThrottleTimes : u <= now } }
  /\ scenario_index = 1
  /\ scenario_timer = 0
  /\ db_available = TRUE
  /\ obsCount = 1
  /\ seenInside = FALSE
  /\ alternations = 1
  /\ auths = << >>
  /\ pc = [t \in ThrottleThreads |-> "decide"]
  /\ frame = [t \in ThrottleThreads |->
        [NoFrame EXCEPT !.in_range = TRUE, !.current_time = now,
                        !.boundary_crossed = TRUE,
                        !.crossing_direction = "EXITED_INDIAN_WATERS",
                        !.event_id = 1, !.total_crossings = 1, !.episode = 1]]

NextThrottle == \E t \in ThrottleThreads : DecideCall(t)

SpecThrottle == InitThrottle /\ [][NextThrottle]_vars

\* ------------------------------------------- _calculate_boundary_distance

\* geodesic((lat1, lon1), (lat2, lon2)).meters of geopy: a distance of two
\* positions, here the one measured along the grid lines, in grid units
geodesic(lat1, lon1, lat2, lon2) == Abs(lat1 - lat2) + Abs(lon1 - lon2)

\* min(min_distance, dist1, dist2), with <<>> for float("inf")
MinOf(min_distance, dist1, dist2) ==
  LET d == IF dist1 <= dist2 THEN dist1 ELSE dist2
  IN IF min_distance = << >> THEN << d >>
     ELSE IF min_distance[1] <= d THEN min_distance ELSE << d >>

\* boundary_lines an engine may be given: none, a line without coordinates,
\* the demo line, a line of two vertices, and several lines; a LineString
\* has no or at least two vertices
SegmentLine == << [lon |-> 670000, lat |-> 220000], [lon |-> 675000, lat |-> 245000] >>
LineConfigs ==
  { << >>,
    << << >> >>,
    DemoBoundaryLines,
    << SegmentLine >>,
    << SegmentLine, DemoBoundaryLines[1] >>,
    << DemoBoundaryLines[1], << >>, SegmentLine >> }

\* positions the distance is asked for: the two of the example, one beyond
\* the last vertex of the demo line, one on a vertex, one next to the end of
\* the two-vertex line, and one far away
DistancePositions ==
  { [lat |-> 225000, lon |-> 690000],
    [lat |-> 240500, lon |-> 679500],
    [lat |-> 265000, lon |-> 680000],
    [lat |-> 230000, lon |-> 680000],
    [lat |-> 245500, lon |-> 675500],
    [lat |-> -100000, lon |-> 1000000] }

\* a call of _calculate_boundary_distance about to enter its loop (line 191)
InitDistance ==
  /\ InitEngine
  /\ scenario_index = 1
  /\ ENGINE = EngineObject(TRUE)
  /\ main_pc = "app_run"
  /\ main_input = [ test_mode |-> FALSE, port |-> 5000,
                    zone_file |-> "valid", boundary_file |-> "valid" ]
  /\ running = FALSE
  /\ thread = NoThread
  /\ boundary_lines \in LineConfigs
  /\ \E p \in DistancePositions :
       distance_call = [NoDistanceCall EXCEPT !.pc = "loop", !.lat = p.lat,
                                              !.lon = p.lon, !.line = 1, !.i = 1]
  /\ pc = << >>
  /\ frame = << >>

\* mutant of DistanceSegment: only the first vertex of each segment is
\* measured, so the last vertex of a line never is
DistanceSegmentFirstVertexOnly ==
  /\ distance_call.pc = "loop"
  /\ distance_call.line <= Len(boundary_lines)
  /\ distance_call.i <= Len(boundary_lines[distance_call.line]) - 1
  /\ LET c == distance_call
         coords == boundary_lines[c.line]
         p1 == coords[c.i]
         dist1 == geodesic(c.lat, c.lon, p1.lat, p1.lon)
     IN distance_call' = [c EXCEPT !.min_distance = MinOf(c.min_distance, dist1, dist1),
                                   !.i = c.i + 1]
  /\ UNCHANGED << engine, feed, now, db_available, process, boundary_lines,
                  pc, frame, history >>

\* lines 194-202: one pass of the inner loop, over the segment (p1, p2)
DistanceSegment ==
  /\ distance_call.pc = "loop"
  /\ distance_call.line <= Len(boundary_lines)
  /\ distance_call.i <= Len(boundary_lines[distance_call.line]) - 1
  /\ LET c == distance_call
         coords == boundary_lines[c.line]
         p1 == coords[c.i]
         p2 == coords[c.i + 1]
         dist1 == geodesic(c.lat, c.lon, p1.lat, p1.lon)
         dist2 == geodesic(c.lat, c.lon, p2.lat, p2.lon)
     IN distance_call' = [c EXCEPT !.min_distance = MinOf(c.min_distance, dist1, dist2),
                                   !.i = c.i + 1]
  /\ UNCHANGED << engine, feed, now, db_available, process, boundary_lines,
                  pc, frame, history >>

\* lines 192-194: the inner loop is exhausted, the outer one takes the next line
DistanceNextLine ==
  /\ distance_call.pc = "loop"
  /\ distance_call.line <= Len(boundary_lines)
  /\ distance_call.i > Len(boundary_lines[distance_call.line]) - 1
  /\ distance_call' = [distance_call EXCEPT !.line = @ + 1, !.i = 1]
  /\ UNCHANGED << engine, feed, now, db_available, process, boundary_lines,
                  pc, frame, history >>

\* line 205: return min_distance if min_distance != float("inf") else 0
DistanceReturn ==
  /\ distance_call.pc = "loop"
  /\ distance_call.line > Len(boundary_lines)
  /\ distance_call' =
       [distance_call EXCEPT
          !.pc = "returned",
          !.result = IF distance_call.min_distance = << >> THEN 0
                     ELSE distance_call.min_distance[1]]
  /\ UNCHANGED << engine, feed, now, db_available, process, boundary_lines,
                  pc, frame, history >>

NextDistance ==
  \/ DistanceSegment
  \/ DistanceNextLine
  \/ DistanceReturn

SpecDistance == InitDistance /\ [][NextDistance]_vars

\* ------------------------------------------------------------------ main()

\* what main() is started with: --test-mode, --port, and for each GeoJSON
\* file whether it is missing, readable as written by
\* create_demo_boundaries, or unreadable
FileStates == { "missing", "valid", "malformed" }
MainInputs ==
  [ test_mode : BOOLEAN, port : {5000, 8080},
    zone_file : FileStates, boundary_file : FileStates ]

\* the process at the start of main(): no engine object exists yet (the
\* engine's attribute variables only mean something once ENGINE.has_state)
InitMain ==
  /\ ENGINE = NoEngine
  /\ main_pc = "parse_args"
  /\ main_input \in MainInputs
  /\ boundary_lines = << >>
  /\ distance_call = NoDistanceCall
  /\ last_inside_boundary = TRUE
  /\ current_inside_boundary = TRUE
  /\ boundary_crossings = 0
  /\ last_call_time = NoCall
  /\ calls_for_current_crossing = 0
  /\ scenario_index = 1
  /\ scenario_timer = 0
  /\ running = FALSE
  /\ thread = NoThread
  /\ now = StartTime
  /\ db_available = TRUE
  /\ obsCount = 0
  /\ seenInside = TRUE
  /\ alternations = 0
  /\ auths = << >>
  /\ pc = << >>
  /\ frame = << >>

MainStep(from, to) ==
  /\ main_pc = from
  /\ main_pc' = to
  /\ UNCHANGED << engine, feed, now, db_available, pc, frame, history, distance_call >>

\* main lines 852-868
ParseArgs ==
  /\ MainStep("parse_args", "init_database")
  /\ UNCHANGED << ENGINE, main_input, boundary_lines >>

\* main line 871
InitDatabase ==
  /\ MainStep("init_database", "create_demo_boundaries")
  /\ UNCHANGED << ENGINE, main_input, boundary_lines >>

\* main line 874: create_demo_boundaries writes each file that is missing
CreateDemoBoundaries ==
  /\ MainStep("create_demo_boundaries", "load_geojson")
  /\ main_input' =
       [main_input EXCEPT
          !.zone_file = IF @ = "missing" THEN "valid" ELSE @,
          !.boundary_file = IF @ = "missing" THEN "valid" ELSE @]
  /\ UNCHANGED << ENGINE, boundary_lines >>

\* main lines 876-882: a file that cannot be loaded makes main() return
LoadGeojson ==
  /\ IF main_input.zone_file = "valid" /\ main_input.boundary_file = "valid"
     THEN /\ MainStep("load_geojson", "construct_engine")
          /\ boundary_lines' = DemoBoundaryLines
     ELSE /\ MainStep("load_geojson", "returned")
          /\ boundary_lines' = boundary_lines
  /\ UNCHANGED << ENGINE, main_input >>

\* main line 886: ENGINE = BoundaryCrossingEngine(india_polygon,
\* boundary_lines). The exception of a failed call leaves main(), whose
\* remaining statements (lines 887-936) are then not reached.
ConstructEngine ==
  LET made == CallClass(EngineMethods, 2)
  IN /\ IF made = "TypeError"
        THEN /\ MainStep("construct_engine", "raised")
             /\ ENGINE' = ENGINE
        ELSE /\ MainStep("construct_engine", "construct_test_system")
             /\ ENGINE' = EngineObject(made = "initialized")
     /\ UNCHANGED << main_input, boundary_lines >>

NextMain ==
  \/ ParseArgs
  \/ InitDatabase
  \/ CreateDemoBoundaries
  \/ LoadGeojson
  \/ ConstructEngine

SpecMain == InitMain /\ [][NextMain]_vars

\* ------------------------------------------------- the example of main()

\* the two requests main() prints as test commands (lines 904-907), sent one
\* after the other by one client, then further requests from outside the zone
ExampleThreads == {"h1"}
ExampleTrack == << [lat |-> 225000, lon |-> 690000], [lat |-> 240500, lon |-> 679500] >>
ExampleOutside == { [lat |-> 240500, lon |-> 679500], [lat |-> 242000, lon |-> 678000] }

InitExample ==
  /\ InitEngine
  /\ InitServing
  /\ pc = [t \in ExampleThreads |-> "idle"]
  /\ frame = [t \in ExampleThreads |-> NoFrame]

ExampleRequest(t) ==
  /\ obsCount < ExampleObs
  /\ \E p \in (IF obsCount < Len(ExampleTrack) THEN {ExampleTrack[obsCount + 1]}
                                                 ELSE ExampleOutside) :
       GpsRequestAt(t, p)

\* time passes, in steps shorter than the cooldown
TickFine ==
  /\ now + FineStep <= StartTime + ClockSpan
  /\ now' = now + FineStep
  /\ UNCHANGED << engine, feed, db_available, process, geometry, pc, frame, history >>

NextExample ==
  \/ \E t \in ExampleThreads :
        \/ ExampleRequest(t)
        \/ DetectCrossing(t)
        \/ CountRead(t)
        \/ CountWrite(t)
        \/ ResetCalls(t)
        \/ LogBoundaryEvent(t)
        \/ UpdateState(t)
        \/ BuildResult(t)
        \/ DecideCall(t)
        \/ Dispatch(t)
        \/ CommitTime(t)
        \/ CommitRead(t)
        \/ CommitWrite(t)
        \/ Respond(t)
  \/ TickFine

SpecExample == InitExample /\ [][NextExample]_vars

\* ------------------------------------------------- the accuracy parameter
\* /gps requests served one at a time, each with an accuracy: the default of
\* line 649, the two ends of the feed's range (line 420), and a fix worse
\* than GPS_ACCURACY_MAX.

AccuracyThreads == {"h1"}
AccuracySet == {3, 10, 15, 500}
AccuracyPositions ==
  { [lat |-> 225000, lon |-> 690000],
    [lat |-> 240500, lon |-> 679500],
    [lat |-> 240000, lon |-> 680000] }

InitAccuracy ==
  /\ InitEngine
  /\ scenario_index = 1
  /\ InitServing
  /\ pc = [t \in AccuracyThreads |-> "idle"]
  /\ frame = [t \in AccuracyThreads |-> NoFrame]

\* gps_endpoint lines 646-655 for a valid position
AccuracyRequest(t) ==
  /\ t \in Handlers
  /\ pc[t] = "idle"
  /\ obsCount < AccuracyObs
  /\ \E p \in AccuracyPositions, accuracy \in AccuracySet :
       /\ ValidCoordinates(p.lat, p.lon)
       /\ ProcessGpsWithAccuracy(t, p.lat, p.lon, accuracy)
  /\ UNCHANGED << engine, feed, env, seenInside, alternations, auths >>

NextAccuracy ==
  \/ \E t \in AccuracyThreads :
        \/ AccuracyRequest(t)
        \/ DetectCrossing(t)
        \/ CountRead(t)
        \/ CountWrite(t)
        \/ ResetCalls(t)
        \/ LogBoundaryEvent(t)
        \/ UpdateState(t)
        \/ BuildResult(t)
        \/ DecideCall(t)
        \/ Dispatch(t)
        \/ CommitTime(t)
        \/ CommitRead(t)
        \/ CommitWrite(t)
        \/ Respond(t)
  \/ Tick

SpecAccuracy == InitAccuracy /\ [][NextAccuracy]_vars

\* ------------------------------------------------- the log database
\* /gps requests served one at a time, while sqlite3 may become unable to
\* write Config.DATABASE_FILE (locked, disk full, directory read-only) and
\* able again.

OutageThreads == {"h1"}

InitOutage ==
  /\ InitEngine
  /\ scenario_index = 1
  /\ InitServing
  /\ pc = [t \in OutageThreads |-> "idle"]
  /\ frame = [t \in OutageThreads |-> NoFrame]

\* the database stops or resumes accepting writes
DbChange ==
  /\ db_available' = ~db_available
  /\ UNCHANGED << engine, feed, now, process, geometry, pc, frame, history >>

NextOutage ==
  \/ \E t \in OutageThreads :
        \/ obsCount < OutageObs /\ GpsRequest(t)
        \/ DetectCrossing(t)
        \/ CountRead(t)
        \/ CountWrite(t)
        \/ ResetCalls(t)
        \/ LogBoundaryEvent(t)
        \/ UpdateState(t)
        \/ BuildResult(t)
        \/ DecideCall(t)
        \/ Dispatch(t)
        \/ CommitTime(t)
        \/ CommitRead(t)
        \/ CommitWrite(t)
        \/ Respond(t)
  \/ DbChange
  \/ Tick

SpecOutage == InitOutage /\ [][NextOutage]_vars

\* ------------------------------------------------- start and stop of the feed
\* Two request threads call /start-boundary-test and /stop-boundary-test
\* while the feed started by main() runs. A Thread object is "absent" before
\* it is created, "created" until it is started, then runs
\* _run_test_scenarios, and is "exited" once the loop has ended.

ControlHandlers == {"h1", "h2"}

FeedAlive(f) == pc[f] \notin {"absent", "created", "exited"}

InitControl ==
  /\ InitEngine
  /\ InitServing
  /\ pc = [t \in ControlHandlers \cup FeedThreads |->
             IF t \in FeedThreads \ {thread} THEN "absent" ELSE "idle"]
  /\ frame = [t \in ControlHandlers \cup FeedThreads |-> NoFrame]

\* start_testing lines 390-391: `if self.running: return False`
StartCheck(h) ==
  /\ h \in Handlers
  /\ pc[h] = "idle"
  /\ IF running
     THEN /\ pc' = [pc EXCEPT ![h] = "respond"]
          /\ frame' = [frame EXCEPT ![h] =
                [NoFrame EXCEPT !.answer = "already_running", !.status = 200]]
     ELSE /\ pc' = [pc EXCEPT ![h] = "start_set"]
          /\ frame' = frame
  /\ UNCHANGED << engine, feed, env, history >>

\* start_testing line 393: self.running = True
StartSet(h) ==
  /\ pc[h] = "start_set"
  /\ running' = TRUE
  /\ pc' = [pc EXCEPT ![h] = "start_thread"]
  /\ UNCHANGED << engine, scenario_index, scenario_timer, thread, env, frame, history >>

\* start_testing line 394: self.thread = threading.Thread(...)
StartThread(h) ==
  /\ pc[h] = "start_thread"
  /\ \E f \in FeedThreads :
       /\ pc[f] = "absent"
       /\ thread' = f
       /\ pc' = [pc EXCEPT ![h] = "start_run", ![f] = "created"]
  /\ UNCHANGED << engine, scenario_index, scenario_timer, running, env, frame, history >>

\* start_testing lines 395-397: self.thread.start(), on the Thread that
\* self.thread holds now; starting a started Thread raises RuntimeError,
\* which start_boundary_test answers with status 500
StartRun(h) ==
  /\ pc[h] = "start_run"
  /\ IF pc[thread] = "created"
     THEN /\ pc' = [pc EXCEPT ![h] = "respond", ![thread] = "idle"]
          /\ frame' = [frame EXCEPT ![h] =
                [NoFrame EXCEPT !.answer = "test_started", !.status = 200]]
     ELSE /\ pc' = [pc EXCEPT ![h] = "respond"]
          /\ frame' = [frame EXCEPT ![h] =
                [NoFrame EXCEPT !.answer = "error", !.status = 500]]
  /\ UNCHANGED << engine, feed, env, history >>

\* stop_testing line 401: self.running = False
StopClear(h) ==
  /\ h \in Handlers
  /\ pc[h] = "idle"
  /\ running' = FALSE
  /\ pc' = [pc EXCEPT ![h] = "stop_read"]
  /\ UNCHANGED << engine, scenario_index, scenario_timer, thread, env, frame, history >>

\* stop_testing line 402: `if self.thread:`
StopRead(h) ==
  /\ pc[h] = "stop_read"
  /\ IF thread = NoThread
     THEN /\ pc' = [pc EXCEPT ![h] = "respond"]
          /\ frame' = [frame EXCEPT ![h] =
                [NoFrame EXCEPT !.answer = "test_stopped", !.status = 200]]
     ELSE /\ pc' = [pc EXCEPT ![h] = "stop_load"]
          /\ frame' = frame
  /\ UNCHANGED << engine, feed, env, history >>

\* stop_testing line 403: self.thread.join() is called on the Thread that
\* self.thread holds now; joining a Thread that was not started raises
\* RuntimeError, which stop_boundary_test answers with status 500
StopLoad(h) ==
  /\ pc[h] = "stop_load"
  /\ IF pc[thread] = "created"
     THEN /\ pc' = [pc EXCEPT ![h] = "respond"]
          /\ frame' = [frame EXCEPT ![h] =
                [NoFrame EXCEPT !.answer = "error", !.status = 500]]
     ELSE /\ pc' = [pc EXCEPT ![h] = "stop_join"]
          /\ frame' = [frame EXCEPT ![h].target = thread]
  /\ UNCHANGED << engine, feed, env, history >>

\* stop_testing lines 403-404: join returns once the joined Thread has ended
StopJoin(h) ==
  /\ pc[h] = "stop_join"
  /\ pc[frame[h].target] = "exited"
  /\ pc' = [pc EXCEPT ![h] = "respond"]
  /\ frame' = [frame EXCEPT ![h].answer = "test_stopped", ![h].status = 200]
  /\ UNCHANGED << engine, feed, env, history >>

\* _run_test_scenarios line 410, `while self.running:` found true, and the
\* body up to the call of process_gps
FeedLoopObserve(f) ==
  /\ running
  /\ FeedObserveWith(f, NoiseSet)

\* _run_test_scenarios line 410, `while self.running:` found false: the
\* thread ends
FeedLoopExit(f) ==
  /\ f \in FeedThreads
  /\ pc[f] = "idle"
  /\ ~running
  /\ pc' = [pc EXCEPT ![f] = "exited"]
  /\ UNCHANGED << engine, feed, env, frame, history >>

NextControl ==
  \/ \E h \in ControlHandlers :
        \/ StartCheck(h)
        \/ StartSet(h)
        \/ StartThread(h)
        \/ StartRun(h)
        \/ StopClear(h)
        \/ StopRead(h)
        \/ StopLoad(h)
        \/ StopJoin(h)
        \/ Respond(h)
  \/ \E f \in FeedThreads :
        \/ obsCount < ControlObs /\ FeedLoopObserve(f)
        \/ FeedLoopExit(f)
        \/ DetectCrossing(f)
        \/ CountRead(f)
        \/ CountWrite(f)
        \/ ResetCalls(f)
        \/ LogBoundaryEvent(f)
        \/ UpdateState(f)
        \/ BuildResult(f)
        \/ DecideCall(f)
        \/ Dispatch(f)
        \/ CommitTime(f)
        \/ CommitRead(f)
        \/ CommitWrite(f)
        \/ FeedFinish(f)

SpecControl == InitControl /\ [][NextControl]_vars

\* ------------------------------------------------------------- properties

Quiescent == \A t \in DOMAIN pc : pc[t] = "idle"

\* thread t takes the step that leaves position `from`
Leaves(t, from) == pc[t] = from /\ pc'[t] /= from

\* the cooldown rule of the throttle: no call recorded yet, or one at least
\* CALL_COOLDOWN_SECONDS before `current_time`
CooldownElapsed(last, current_time) ==
  last = NoCall \/ current_time - last[1] >= CALL_COOLDOWN_SECONDS

AuthsOf(e) == { i \in DOMAIN auths : auths[i].episode = e }

\* C1: once every observation has returned, the crossing count equals the
\* number of alternations in the sequence of observed containments.
C1_OneTransitionPerCrossing ==
  Quiescent => boundary_crossings = alternations

\* C2: no Outside episode has more than MAX_EMERGENCY_CALLS authorizations.
C2_QuotaPerEpisode ==
  \A i \in DOMAIN auths :
    Cardinality(AuthsOf(auths[i].episode)) <= MAX_EMERGENCY_CALLS

\* C3: an authorization decided after one that was committed as succeeded
\* has a time at least CALL_COOLDOWN_SECONDS later.
C3_CooldownBetweenSuccessful ==
  \A i, j \in DOMAIN auths :
    (i < j /\ auths[i].outcome = "succeeded")
      => auths[j].time - auths[i].time >= CALL_COOLDOWN_SECONDS

\* C4: when the attempts of the current Outside episode so far have all
\* reported failure (so none consumed quota), the decision of the next
\* Outside observation of that episode authorizes a call again.
C4_FailedAttemptKeepsQuota ==
  [][ \A t \in DOMAIN pc :
        ( /\ Leaves(t, "decide")
          /\ ~frame[t].inside_boundary
          /\ frame[t].episode = alternations
          /\ AuthsOf(frame[t].episode) /= {}
          /\ \A i \in AuthsOf(frame[t].episode) : auths[i].outcome = "failed"
          /\ MAX_EMERGENCY_CALLS >= 1
          /\ CooldownElapsed(last_call_time, frame[t].current_time) )
        => frame'[t].requires_emergency_call ]_vars

\* C5: the decision of an Outside observation that is not a transition
\* authorizes a call whenever the call count is below the maximum and the
\* cooldown has elapsed.
C5_EvaluatedOnEveryOutside ==
  [][ \A t \in DOMAIN pc :
        ( /\ Leaves(t, "decide")
          /\ ~frame[t].inside_boundary
          /\ ~frame[t].boundary_crossed
          /\ calls_for_current_crossing < MAX_EMERGENCY_CALLS
          /\ CooldownElapsed(last_call_time, frame[t].current_time) )
        => frame'[t].requires_emergency_call ]_vars

\* C6: the step by which an observation that detected a transition, in
\* either direction, leaves the transition block of process_gps sets the
\* call count of the episode to 0.
C6_EpisodeReset ==
  [][ \A t \in DOMAIN pc :
        (pc[t] /= "log" /\ pc'[t] = "log" /\ frame'[t].boundary_crossed)
        => calls_for_current_crossing' = 0 ]_vars

\* C6 witness: a second exit (after an exit and a re-entry) has just been
\* detected, a call of the first Outside episode was committed as succeeded,
\* and the call count is 0.
C6_Witness ==
  \E t \in DOMAIN pc :
    /\ pc[t] = "log"
    /\ frame[t].boundary_crossed
    /\ ~frame[t].inside_boundary
    /\ frame[t].episode >= 3
    /\ \E i \in DOMAIN auths :
         auths[i].outcome = "succeeded" /\ auths[i].episode < frame[t].episode
    /\ \A u \in DOMAIN pc \ {t} : pc[u] = "idle"
    /\ calls_for_current_crossing = 0

\* C7: an observation whose containment differs from last_inside_boundary
\* reports boundary_crossed with the direction of the new containment, its
\* increment raises boundary_crossings by exactly 1, and its state update
\* stores the new containment.
C7_TransitionRule ==
  [][ \A t \in DOMAIN pc :
        /\ (Leaves(t, "compare") /\ frame[t].inside_boundary /= last_inside_boundary)
             => frame'[t].boundary_crossed
        /\ (Leaves(t, "reset") \/ (pc'[t] = "respond" /\ frame'[t].boundary_crossed))
             => frame'[t].crossing_direction =
                  IF frame'[t].inside_boundary THEN "ENTERED_INDIAN_WATERS"
                                               ELSE "EXITED_INDIAN_WATERS"
        /\ Leaves(t, "count_write") => boundary_crossings' = boundary_crossings + 1
        /\ Leaves(t, "update") => last_inside_boundary' = frame[t].inside_boundary ]_vars

\* C8: an observation whose containment equals last_inside_boundary reports
\* no crossing and no direction, and none of its steps changes
\* last_inside_boundary, boundary_crossings or calls_for_current_crossing.
C8_NoTransitionFrame ==
  [][ \A t \in DOMAIN pc :
        /\ (Leaves(t, "compare") /\ frame[t].inside_boundary = last_inside_boundary)
             => (~frame'[t].boundary_crossed /\ frame'[t].crossing_direction = "None")
        /\ ( /\ pc[t] \in {"compare", "log", "update", "build", "decide"}
             /\ pc'[t] /= pc[t]
             /\ ~frame'[t].boundary_crossed )
             => /\ last_inside_boundary' = last_inside_boundary
                /\ boundary_crossings' = boundary_crossings
                /\ calls_for_current_crossing' = calls_for_current_crossing ]_vars

\* C9: a request whose position is out of range is answered with an error
\* in the step that receives it, with the session state unchanged, and no
\* thread is ever inside process_gps with a position out of range.
C9_InvalidRejected ==
  [][ \A t \in DOMAIN pc :
        /\ (Leaves(t, "idle") /\ ~frame'[t].in_range)
             => /\ pc'[t] = "respond"
                /\ frame'[t].status = 400
                /\ session' = session
        /\ (pc'[t] \notin {"idle", "respond"}) => frame'[t].in_range
        /\ (pc'[t] = "respond" /\ frame'[t].status /= 400) => frame'[t].in_range ]_vars

\* C9 witness: a request has been rejected while the session state is no
\* longer the initial one.
C9_Witness ==
  \E t \in DOMAIN pc :
    /\ pc[t] = "respond"
    /\ frame[t].status = 400
    /\ ~frame[t].in_range
    /\ boundary_crossings > 0
    /\ ~last_inside_boundary

\* C10: a dispatch that reports failure changes neither
\* calls_for_current_crossing nor last_call_time, in that step and in the
\* caller's remaining steps, and the caller goes on to answer with the
\* decision record of the observation.
C10_FailedDispatch ==
  [][ \A t \in DOMAIN pc :
        /\ (Leaves(t, "dispatch") /\ ~frame'[t].call_success)
             => /\ calls_for_current_crossing' = calls_for_current_crossing
                /\ last_call_time' = last_call_time
                /\ pc'[t] = "respond"
                /\ frame'[t].status = 200
                /\ frame'[t].requires_emergency_call
                /\ ~frame'[t].emergency_call_made
        /\ (Leaves(t, "respond") /\ ~frame[t].call_success)
             => /\ calls_for_current_crossing' = calls_for_current_crossing
                /\ last_call_time' = last_call_time ]_vars

\* C10 witness: a caller is about to answer after a failed dispatch, with
\* an earlier successful call on record.
C10_Witness ==
  \E t \in DOMAIN pc :
    /\ pc[t] = "respond"
    /\ frame[t].requires_emergency_call
    /\ ~frame[t].call_success
    /\ frame[t].status = 200
    /\ last_call_time /= NoCall

\* C11: on an initialized engine over the demo zone, the request at
\* (22.5, 69.0) is answered inside with no crossing; the next one, at
\* (24.05, 67.95), is answered outside, crossed, direction exited, one
\* crossing in total and a call required; a further request from outside
\* within CALL_COOLDOWN_SECONDS of that one is answered with no call required.
C11_EndToEndExample ==
  \A t \in DOMAIN pc :
    pc[t] = "respond" =>
      /\ obsCount = 1 =>
            frame[t].inside_boundary /\ ~frame[t].boundary_crossed
      /\ obsCount = 2 =>
            /\ ~frame[t].inside_boundary
            /\ frame[t].boundary_crossed
            /\ frame[t].crossing_direction = "EXITED_INDIAN_WATERS"
            /\ frame[t].total_crossings = 1
            /\ frame[t].requires_emergency_call
      /\ (obsCount = 3 /\ Len(auths) >= 1
            /\ frame[t].current_time - auths[1].time < CALL_COOLDOWN_SECONDS) =>
            ~frame[t].inside_boundary /\ ~frame[t].requires_emergency_call

\* C11 witness: the third request is being answered, later than the second
\* but within the cooldown of its call, which was committed as succeeded.
C11_Witness ==
  \E t \in DOMAIN pc :
    /\ pc[t] = "respond"
    /\ obsCount = 3
    /\ Len(auths) = 1
    /\ auths[1].outcome = "succeeded"
    /\ frame[t].current_time > auths[1].time
    /\ frame[t].current_time - auths[1].time < CALL_COOLDOWN_SECONDS
    /\ ~frame[t].requires_emergency_call
    /\ calls_for_current_crossing = 1

\* the positions from which a thread's next step reads or writes
\* last_inside_boundary, boundary_crossings, calls_for_current_crossing or
\* last_call_time
SessionAccess ==
  { "compare", "count_read", "count_write", "reset", "update", "build",
    "decide", "commit_time", "commit_read", "commit_write" }

\* the positions of a thread that has read last_inside_boundary at line 147
\* and has not yet written it at line 165
BetweenReadAndWrite ==
  { "count_read", "count_write", "reset", "log", "update" }

\* C12: while one process_gps call is between its read of
\* last_inside_boundary and its write of it, no other thread takes a step
\* that reads or writes the session state.
C12_AtomicTransition ==
  [][ \A t, u \in DOMAIN pc :
        (t /= u /\ pc[t] \in BetweenReadAndWrite /\ pc'[u] /= pc[u])
        => pc[u] \notin SessionAccess ]_vars

\* C13: the commit of a successful call is not interleaved with another
\* write of the call count: the count it stores, one more than the count it
\* read, is one more than the count at the time of the store, so no
\* increment and no reset is lost.
C13_CommitSerialized ==
  [][ \A t \in DOMAIN pc :
        Leaves(t, "commit_write") => calls_for_current_crossing = frame[t].tmp ]_vars

\* main() has executed the statement that builds the engine (line 886)
EngineBuilt == main_pc \in { "raised", "construct_test_system", "app_run" }

\* C14: once main() has executed the construction of the engine, ENGINE is
\* an engine with last_inside_boundary = True, boundary_crossings = 0,
\* calls_for_current_crossing = 0 and last_call_time = None until the first
\* observation starts.
C14_ConstructedEngineState ==
  (EngineBuilt /\ obsCount = 0) =>
    /\ ENGINE = EngineObject(TRUE)
    /\ last_inside_boundary = TRUE
    /\ boundary_crossings = 0
    /\ calls_for_current_crossing = 0
    /\ last_call_time = NoCall

\* C15: an observation of a position strictly interior to the zone polygon
\* is classified and answered as inside, whatever the state of the engine
\* and whatever was observed before.
C15_InteriorIsInside ==
  \A t \in DOMAIN pc :
    (pc[t] /= "idle" /\ frame[t].interior) => frame[t].inside_boundary

\* C15 witness: an observation of an interior position is answered as
\* inside while the engine, after crossings, holds the containment "outside"
\* stored by another thread.
C15_Witness ==
  \E t \in DOMAIN pc :
    /\ pc[t] = "respond"
    /\ frame[t].status = 200
    /\ frame[t].interior
    /\ frame[t].inside_boundary
    /\ ~last_inside_boundary
    /\ boundary_crossings > 0

\* every vertex of every boundary line
AllVertices(lines) ==
  UNION { { lines[l][k] : k \in 1..Len(lines[l]) } : l \in 1..Len(lines) }

\* the least distance from (lat, lon) to a vertex, 0 when there is none
MinVertexDistance(lines, lat, lon) ==
  LET D == { geodesic(lat, lon, v.lat, v.lon) : v \in AllVertices(lines) }
  IN IF D = {} THEN 0 ELSE CHOOSE d \in D : \A e \in D : d <= e

\* C16: the distance _calculate_boundary_distance returns is the least of the
\* distances from the position to the vertices of all boundary lines, and 0
\* when no line has a vertex.
C16_DistanceIsMinOverVertices ==
  distance_call.pc = "returned" =>
    distance_call.result =
      MinVertexDistance(boundary_lines, distance_call.lat, distance_call.lon)

\* C16 witness: with several lines configured, the call has returned a
\* positive distance, the one to the last vertex of a line, which is nearer
\* than every other vertex.
C16_Witness ==
  /\ distance_call.pc = "returned"
  /\ Len(boundary_lines) >= 2
  /\ distance_call.result > 0
  /\ \E l \in 1..Len(boundary_lines) :
       /\ Len(boundary_lines[l]) >= 2
       /\ LET last == boundary_lines[l][Len(boundary_lines[l])]
          IN /\ distance_call.result =
                  geodesic(distance_call.lat, distance_call.lon, last.lat, last.lon)
             /\ \A v \in AllVertices(boundary_lines) \ {last} :
                  geodesic(distance_call.lat, distance_call.lon, v.lat, v.lon)
                    > distance_call.result

\* the throttle rule: the call count below the maximum, and no call
\* recorded or one at least CALL_COOLDOWN_SECONDS ago
MayEscalate(calls, last, current_time) ==
  calls < MAX_EMERGENCY_CALLS /\ CooldownElapsed(last, current_time)

\* C17: when the throttle is asked, the answer is yes exactly when the call
\* count is below MAX_EMERGENCY_CALLS and either no call is recorded or the
\* last one is at least CALL_COOLDOWN_SECONDS old (exactly that old included).
C17_MayEscalateIff ==
  [][ \A t \in DOMAIN pc :
        (Leaves(t, "decide") /\ frame[t].boundary_crossed /\ ~frame[t].inside_boundary)
        => ( frame'[t].requires_emergency_call
               <=> MayEscalate(calls_for_current_crossing, last_call_time,
                               frame[t].current_time) ) ]_vars

\* C18: no decision record has requires_emergency_call together with
\* inside_boundary: a call is only ever required by an observation that
\* found the position outside.
C18_AuthorizedOnlyOutside ==
  \A t \in DOMAIN pc :
    frame[t].requires_emergency_call => ~frame[t].inside_boundary

\* C18 witness: after an exit, an entry and a second exit, a decision record
\* requiring a call is being answered, and the engine holds "outside".
C18_Witness ==
  \E t \in DOMAIN pc :
    /\ pc[t] = "respond"
    /\ frame[t].requires_emergency_call
    /\ ~frame[t].inside_boundary
    /\ frame[t].episode >= 3
    /\ ~last_inside_boundary

\* C19: the caller of a dispatch that reported success goes on to the
\* commit; its store of last_call_time stores the time of the commit, its
\* store of the call count raises the count by exactly 1, and neither
\* changes last_inside_boundary or boundary_crossings.
C19_SuccessCommit ==
  [][ \A t \in DOMAIN pc :
        /\ (Leaves(t, "dispatch") /\ frame'[t].call_success)
             => pc'[t] = "commit_time"
        /\ Leaves(t, "commit_time")
             => /\ last_call_time' = << now >>
                /\ last_inside_boundary' = last_inside_boundary
                /\ boundary_crossings' = boundary_crossings
        /\ Leaves(t, "commit_write")
             => /\ calls_for_current_crossing' = calls_for_current_crossing + 1
                /\ last_inside_boundary' = last_inside_boundary
                /\ boundary_crossings' = boundary_crossings ]_vars

\* the positions of a thread inside process_gps
InProcessGps ==
  { "compare", "count_read", "count_write", "reset", "log", "update",
    "build", "decide" }

\* C20: no step of process_gps, the throttle check included, changes
\* last_call_time or raises calls_for_current_crossing; a step that does is
\* a step of the commit that follows a successful dispatch.
C20_CheckIsPure ==
  [][ /\ \A t \in DOMAIN pc :
           (pc[t] \in InProcessGps /\ pc'[t] /= pc[t])
           => /\ last_call_time' = last_call_time
              /\ calls_for_current_crossing' <= calls_for_current_crossing
      /\ ( \/ last_call_time' /= last_call_time
           \/ calls_for_current_crossing' > calls_for_current_crossing )
         => \E t \in DOMAIN pc :
              /\ pc[t] \in { "commit_time", "commit_write" }
              /\ pc'[t] /= pc[t]
              /\ frame[t].call_success ]_vars

\* C20 witness: an observation from outside that required no call is being
\* answered while a successful call, committed at the clock reading of that
\* observation, is on record with a call count of 1.
C20_Witness ==
  \E t \in DOMAIN pc :
    /\ pc[t] = "respond"
    /\ frame[t].status = 200
    /\ ~frame[t].inside_boundary
    /\ ~frame[t].requires_emergency_call
    /\ calls_for_current_crossing = 1
    /\ last_call_time = << frame[t].current_time >>
    /\ \E i \in DOMAIN auths : auths[i].outcome = "succeeded"

\* C21: within one call of process_gps, the write of the boundary event to
\* the log (_log_boundary_event) never falls between that call's
\* comparison against last_inside_boundary and its store into
\* last_inside_boundary: when the log write is taken, the call is either
\* still before its comparison or already past its store.
C21_LogOutsideCriticalSection ==
  [][ \A t \in DOMAIN pc :
        Leaves(t, "log") =>
          \/ Rank(pc[t]) <= Rank("compare")
          \/ Rank(pc[t]) > Rank("update") ]_vars

\* C22: for every scenario of TEST_SCENARIOS, the containment the engine
\* reports for the scenario's nominal position equals the scenario's
\* declared inside_boundary (the comparison of _display_test_results), the
\* two scenarios at (24.0, 68.0) on the western edge included.
C22_ScenarioClassification ==
  \A t \in DOMAIN pc :
    (t = FeedThread /\ pc[t] = "respond") =>
      frame[t].inside_boundary = TEST_SCENARIOS[scenario_index].inside_boundary

\* what process_gps answers and leaves behind, as a function of the session
\* state it starts from, the position and the clock reading
ObserveOutcome(before, lat, lon, current_time) ==
  LET inside == Contains(lat, lon)
      crossed == inside /= before[1]
      calls == IF crossed THEN 0 ELSE before[3]
  IN [ inside_boundary |-> inside,
       boundary_crossed |-> crossed,
       crossing_direction |-> IF ~crossed THEN "None"
                              ELSE IF inside THEN "ENTERED_INDIAN_WATERS"
                              ELSE "EXITED_INDIAN_WATERS",
       total_crossings |-> before[2] + (IF crossed THEN 1 ELSE 0),
       requires_emergency_call |->
          crossed /\ ~inside /\ MayEscalate(calls, before[4], current_time),
       session |-> << inside, before[2] + (IF crossed THEN 1 ELSE 0),
                      calls, before[4] >> ]

\* C23: accuracy is informational. The record process_gps returns and the
\* session state it leaves are those that the session state it started
\* from, the latitude, the longitude and the clock reading determine, so
\* two calls from the same session state with the same latitude and
\* longitude that differ only in accuracy return the same record and leave
\* the same session state.
C23_AccuracyInformational ==
  [][ \A t \in DOMAIN pc :
        (Leaves(t, "decide") /\ frame[t].accuracy > 0) =>
          LET f == frame'[t]
              o == ObserveOutcome(f.before, f.lat, f.lon, f.current_time)
          IN /\ f.inside_boundary = o.inside_boundary
             /\ f.boundary_crossed = o.boundary_crossed
             /\ f.crossing_direction = o.crossing_direction
             /\ f.total_crossings = o.total_crossings
             /\ f.requires_emergency_call = o.requires_emergency_call
             /\ session' = o.session ]_vars

\* C23 witness: a poorly measured fix (worse than GPS_ACCURACY_MAX) inside
\* the zone is answered as inside, after an earlier request took the
\* session outside: the record reports the entry.
C23_Witness ==
  \E t \in DOMAIN pc :
    /\ pc[t] = "respond"
    /\ frame[t].accuracy > GPS_ACCURACY_MAX
    /\ frame[t].inside_boundary
    /\ frame[t].boundary_crossed
    /\ frame[t].total_crossings = 2

\* C24: between observations (no call of process_gps in progress),
\* last_inside_boundary is TRUE exactly when boundary_crossings is even,
\* whatever the interleaving of the calls was: the session starts inside
\* with a count of zero and every transition flips one and adds one to the
\* other.
C24_ParityOfCrossings ==
  Quiescent => (last_inside_boundary <=> boundary_crossings % 2 = 0)

\* C25: in every reachable state calls_for_current_crossing is at most
\* MAX_EMERGENCY_CALLS, whatever the interleaving of the calls of process_gps
\* and of the commits that follow a dispatch.
C25_EscalationsBounded ==
  calls_for_current_crossing <= MAX_EMERGENCY_CALLS

\* C26: requires_emergency_call is TRUE only in a record of process_gps whose
\* boundary_crossed is TRUE and whose inside_boundary is FALSE, in every
\* thread's record and at every point of the call and of the handler after it.
C26_RequiredOnlyOnExit ==
  \A t \in DOMAIN pc :
    frame[t].requires_emergency_call =>
      (frame[t].boundary_crossed /\ ~frame[t].inside_boundary)

\* C26 witness: a call is required in the record of an exit, while the
\* record of an observation from outside that was no crossing requires none.
C26_Witness ==
  \E t, u \in DOMAIN pc :
    /\ pc[t] \in {"dispatch", "respond"}
    /\ frame[t].requires_emergency_call
    /\ frame[t].boundary_crossed
    /\ frame[t].crossing_direction = "EXITED_INDIAN_WATERS"
    /\ pc[u] = "respond"
    /\ frame[u].status = 200
    /\ ~frame[u].inside_boundary
    /\ ~frame[u].boundary_crossed
    /\ ~frame[u].requires_emergency_call

\* C27: the total_crossings of a record equals the crossing count the
\* observation found when it compared against last_inside_boundary, plus
\* one when the record's boundary_crossed is TRUE and plus zero otherwise,
\* also when other calls of process_gps run at the same time.
C27_TotalCrossingsOfRecord ==
  [][ \A t \in DOMAIN pc :
        Leaves(t, "build") =>
          frame'[t].total_crossings =
            frame[t].count_before + (IF frame[t].boundary_crossed THEN 1 ELSE 0) ]_vars

\* C28: a failed log write does not abort the observation. When the insert
\* fails, _log_boundary_event answers 0 and process_gps goes on with the
\* session untouched by the failure; it then stores the containment it
\* observed, keeps the crossing it counted in total_crossings, returns a
\* record with event_id = 0 and decides on the call by the same rule as
\* after a successful write.
C28_LogFailureTolerated ==
  [][ \A t \in DOMAIN pc :
        /\ (Leaves(t, "log") /\ ~db_available)
             => /\ frame'[t].event_id = 0
                /\ pc'[t] = "update"
                /\ session' = session
        /\ (Leaves(t, "update") /\ frame[t].event_id = 0)
             => /\ last_inside_boundary' = frame[t].inside_boundary
                /\ boundary_crossings' = boundary_crossings
                /\ pc'[t] = "build"
        /\ (Leaves(t, "build") /\ frame[t].event_id = 0)
             => /\ frame'[t].total_crossings = boundary_crossings
                /\ frame'[t].event_id = 0
        /\ (Leaves(t, "decide") /\ frame[t].event_id = 0)
             => /\ frame'[t].event_id = 0
                /\ frame'[t].status = 200
                /\ frame'[t].requires_emergency_call =
                     ( /\ frame[t].boundary_crossed
                       /\ ~frame[t].inside_boundary
                       /\ ShouldMakeEmergencyCall(calls_for_current_crossing,
                                                  last_call_time,
                                                  frame[t].current_time) ) ]_vars

\* C28 witness: an exit whose log write failed is answered with status 200,
\* event_id 0, the crossing counted, the session outside and a call required.
C28_Witness ==
  \E t \in DOMAIN pc :
    /\ pc[t] = "respond"
    /\ frame[t].status = 200
    /\ frame[t].event_id = 0
    /\ frame[t].boundary_crossed
    /\ ~frame[t].inside_boundary
    /\ frame[t].total_crossings = 1
    /\ frame[t].requires_emergency_call
    /\ ~last_inside_boundary
    /\ boundary_crossings = 1

\* C29: at most one feed thread runs _run_test_scenarios at any time,
\* whatever the interleaving of the start_testing and stop_testing calls of
\* the request threads: a start_testing call made while the feed runs
\* answers False and starts no thread.
C29_OneFeedThread ==
  Cardinality({ f \in FeedThreads : FeedAlive(f) }) <= 1

\* C30: every stop_testing call eventually returns, and once it has
\* returned the feed thread it joined runs no more (no further process_gps
\* call, no further commit), whatever start_testing calls interleave with
\* it. On finite runs: a stop_testing call that waits in join while no other
\* start_testing or stop_testing call is in progress waits for a thread that
\* is bound to end (running is FALSE, or the thread has ended), and a
\* stop_testing call that has returned from join left its thread ended.
C30_StopReturns ==
  \A h \in ControlHandlers :
    /\ (pc[h] = "stop_join" /\ \A g \in ControlHandlers \ {h} : pc[g] = "idle")
         => (~running \/ pc[frame[h].target] = "exited")
    /\ (pc[h] = "respond" /\ frame[h].target /= NoThread)
         => pc[frame[h].target] = "exited"

\* C31: once a successful call has been recorded, at whatever timestamp,
\* the timestamp 0 included, the throttle treats last_call_time as set: a
\* check made less than CALL_COOLDOWN_SECONDS after that timestamp answers
\* no.
C31_RecordedTimeIsSet ==
  [][ \A t \in DOMAIN pc :
        ( /\ Leaves(t, "decide")
          /\ last_call_time /= NoCall
          /\ frame[t].current_time - last_call_time[1] < CALL_COOLDOWN_SECONDS )
        => ~frame'[t].requires_emergency_call ]_vars

====
